---- MODULE Spec2Model ----
(***************************************************************************)
(* Model of setup_store_products.py: the Google Play product setup script. *)
(* One run of main() asks for confirmation, authenticates, then issues one *)
(* create call per catalog entry (consumables, then subscriptions), each   *)
(* followed by a fixed delay.  The remote catalog is the environment.      *)
(*                                                                         *)
(* Python integers are unbounded, and one catalog price (10_007_990_000)   *)
(* exceeds TLC's 32-bit integers, so a price is a sequence of            *)
(* decimal digits, most significant first; // and % by a small divisor are *)
(* schoolbook long division on that sequence.  Strings that the code       *)
(* inspects (answers, error messages, str(int)) are character sequences.   *)
(***************************************************************************)
EXTENDS Integers, Sequences, FiniteSets, TLC

VARIABLES
    PACKAGE_NAME,  \* the configured package identifier (line 28, edited by the operator)
    pc,            \* position of the run in main()
    i,             \* index of the current item of the list being iterated
    continueAnswer, \* what "Continue anyway?" read: NoAnswer, typed text, or end of input
    proceedAnswer, \* what "Proceed with creating all products?" read, likewise
    authCond,      \* what get_service() found, "none" before it was entered
    service,       \* TRUE once get_service() returned a client
    request,       \* the create request in flight, NoRequest when no call is in flight
    remote,        \* the remote catalog: identifier -> number of entries held
    issued,        \* identifiers of the create calls issued in this run, in order
    completed,     \* number of create calls of this run that returned or raised
    outcome,       \* what the script printed for the last completed call
    exc,           \* what the last completed call did: Returned, or the raised exception
    sinceSleep,    \* create calls issued since the last time.sleep (or since the start)
    firstFailed,   \* position in issued of the first call that raised, 0 if none
    exitCode,      \* <<>> while the process runs, <<status>> once it has ended
    run,           \* number of the current invocation of the script
    synced,        \* TRUE once an earlier invocation ran to DONE
    clean,         \* TRUE while no call of any invocation raised a non-conflict error
    micros,        \* price conversion probe: the input price
    price          \* price conversion probe: the converted price, NoPrice before

vars == <<PACKAGE_NAME, pc, i, continueAnswer, proceedAnswer, authCond, service, request,
          remote, issued, completed, outcome, exc, sinceSleep, firstFailed, exitCode,
          run, synced, clean, micros, price>>

\* the variables that outlive one invocation, and the conversion probe
carried == <<PACKAGE_NAME, run, synced, micros, price>>
\* the operator's answers and the client
gate == <<continueAnswer, proceedAnswer, authCond, service>>

-----------------------------------------------------------------------------
(* Unbounded non-negative integers as decimal digit sequences.             *)

RECURSIVE BigFromNat(_)
BigFromNat(n) == IF n < 10 THEN <<n>> ELSE Append(BigFromNat(n \div 10), n % 10)

Front(s) == SubSeq(s, 1, Len(s) - 1)

RECURSIVE StripZeros(_)
StripZeros(d) == IF Len(d) > 1 /\ d[1] = 0 THEN StripZeros(Tail(d)) ELSE d

\* d * k + c for a digit sequence d and small naturals k, c
RECURSIVE MulAddRaw(_, _, _)
MulAddRaw(d, k, c) ==
    IF d = <<>>
    THEN IF c = 0 THEN <<>> ELSE BigFromNat(c)
    ELSE LET t == d[Len(d)] * k + c
         IN Append(MulAddRaw(Front(d), k, t \div 10), t % 10)

BigMulAdd(d, k, c) ==
    LET r == MulAddRaw(d, k, c) IN IF r = <<>> THEN <<0>> ELSE StripZeros(r)

\* long division of the digit sequence d by the small natural k:
\* quotient digits so far in q, running remainder in r
RECURSIVE DivStep(_, _, _, _, _)
DivStep(d, k, n, q, r) ==
    IF n > Len(d)
    THEN [quot |-> StripZeros(q), rem |-> r]
    ELSE LET t == r * 10 + d[n]
         IN DivStep(d, k, n + 1, Append(q, t \div k), t % k)

BigFloorDiv(d, k) == DivStep(d, k, 1, <<>>, 0).quot
BigMod(d, k) == DivStep(d, k, 1, <<>>, 0).rem

\* a Python literal written in groups of three digits, 10_007_990_000 = Lit(<<10, 7, 990, 0>>)
RECURSIVE Lit(_)
Lit(groups) ==
    IF Len(groups) = 1 THEN BigFromNat(groups[1])
    ELSE BigMulAdd(Lit(Front(groups)), 1000, groups[Len(groups)])

DigitChar == <<"0", "1", "2", "3", "4", "5", "6", "7", "8", "9">>

\* str(n) of a non-negative integer: its decimal digits as characters
Str(d) == [n \in 1..Len(d) |-> DigitChar[d[n] + 1]]

-----------------------------------------------------------------------------
(* Character sequences.                                                    *)

\* str.lower() on the characters that occur in the modelled texts
LowerChar(c) ==
    CASE c = "A" -> "a"
      [] c = "E" -> "e"
      [] c = "Y" -> "y"
      [] c = "N" -> "n"
      [] OTHER -> c

Lower(s) == [n \in 1..Len(s) |-> LowerChar(s[n])]

\* str.strip(): drop leading and trailing blanks
RECURSIVE LStrip(_)
LStrip(s) == IF Len(s) > 0 /\ s[1] = " " THEN LStrip(Tail(s)) ELSE s

RECURSIVE RStrip(_)
RStrip(s) == IF Len(s) > 0 /\ s[Len(s)] = " " THEN RStrip(Front(s)) ELSE s

Strip(s) == RStrip(LStrip(s))

\* the Python test `needle in s`
Contains(s, needle) ==
    \E k \in 0..(Len(s) - Len(needle)) : SubSeq(s, k + 1, k + Len(needle)) = needle

-----------------------------------------------------------------------------
(* Configuration and the product catalog.                                  *)

DefaultPackageName == "com.yourcompany.oneinabillion"

\* the placeholder as shipped, or the operator's own applicationId
PackageNames == {DefaultPackageName, "com.example.oneinabillion"}

IN_APP_PRODUCTS == <<
    [sku |-> "single_system",
     title |-> "Single System Reading",
     description |-> "Get a personalized reading for one astrological system - approximately 40 minutes of narrated audio and a 10-page PDF.",
     price_usd_micros |-> Lit(<<13, 990, 0>>),
     purchaseType |-> "managedUser"],
    [sku |-> "complete_reading",
     title |-> "Complete Reading (All 5 Systems)",
     description |-> "All 5 astrological systems analyzed for one person - 200 minutes of audio, 50 pages. Save 50% vs buying individually.",
     price_usd_micros |-> Lit(<<33, 990, 0>>),
     purchaseType |-> "managedUser"],
    [sku |-> "compatibility_overlay",
     title |-> "Compatibility Overlay",
     description |-> "Compare two people in one astrological system - individual readings plus a deep compatibility analysis. 120 minutes of audio.",
     price_usd_micros |-> Lit(<<40, 990, 0>>),
     purchaseType |-> "managedUser"],
    [sku |-> "nuclear_package",
     title |-> "Nuclear Package (Everything)",
     description |-> "The ultimate package: all 5 systems for both people, all overlays, plus a final verdict. 640+ minutes of audio, 160+ pages. 50% off.",
     price_usd_micros |-> Lit(<<107, 990, 0>>),
     purchaseType |-> "managedUser"] >>

SUBSCRIPTIONS == <<
    [productId |-> "basic_monthly",
     title |-> "Basic Monthly",
     description |-> "1 extended reading per month, daily compatibility matching, and ongoing background resonance updates.",
     basePlan |-> [basePlanId |-> "basic-monthly-plan",
                   billingPeriod |-> "P1M",
                   price_usd_micros |-> Lit(<<20, 990, 0>>),
                   autoRenewing |-> TRUE]],
    [productId |-> "yearly_subscription",
     title |-> "108 Yearly",
     description |-> "3 extended readings per month, daily compatibility matching, narrated readings with audio and PDF. Best value!",
     basePlan |-> [basePlanId |-> "yearly-plan",
                   billingPeriod |-> "P1Y",
                   price_usd_micros |-> Lit(<<107, 990, 0>>),
                   autoRenewing |-> TRUE]],
    [productId |-> "billionaire_yearly",
     title |-> "Billionaire",
     description |-> "108 readings per month - unlimited compatibility readings, all systems, all overlays. The ultimate experience.",
     basePlan |-> [basePlanId |-> "billionaire-yearly-plan",
                   billingPeriod |-> "P1Y",
                   price_usd_micros |-> Lit(<<10, 7, 990, 0>>),
                   autoRenewing |-> TRUE]] >>

Skus == {IN_APP_PRODUCTS[n].sku : n \in 1..Len(IN_APP_PRODUCTS)}
ProductIds == {SUBSCRIPTIONS[n].productId : n \in 1..Len(SUBSCRIPTIONS)}
Ids == Skus \cup ProductIds

\* the create calls of a complete run, in the order main() makes them
CatalogOrder ==
    [n \in 1..Len(IN_APP_PRODUCTS) |-> IN_APP_PRODUCTS[n].sku]
        \o [n \in 1..Len(SUBSCRIPTIONS) |-> SUBSCRIPTIONS[n].productId]

-----------------------------------------------------------------------------
(* Request payloads.                                                       *)

\* mutants of the price conversion: the quotient by the wrong divisor, the
\* remainder by the wrong modulus
PriceUnitsPerMille(m) == Str(BigFloorDiv(m, 1000))
PriceNanosOfMillis(m) == BigMod(m, 1000) * 1000

\* units and nanos of a price in micros, as the base plan's US price carries them
PriceUnits(m) == Str(BigFloorDiv(m, 1000000))
PriceNanos(m) == BigMod(m, 1000000) * 1000

InAppBody(product) ==
    [sku |-> product.sku,
     status |-> "active",
     purchaseType |-> product.purchaseType,
     defaultLanguage |-> "en-US",
     listings |-> [en_US |-> [title |-> product.title,
                              description |-> product.description]],
     defaultPrice |-> [priceMicros |-> Str(product.price_usd_micros),
                       currency |-> "USD"]]

SubscriptionBody(sub) ==
    LET bp == sub.basePlan
    IN [productId |-> sub.productId,
        listings |-> << [languageCode |-> "en-US",
                         title |-> sub.title,
                         description |-> sub.description] >>,
        basePlans |-> <<
            [basePlanId |-> bp.basePlanId,
             autoRenewingBasePlanType |-> [billingPeriodDuration |-> bp.billingPeriod],
             regionalConfigs |-> <<
                 [regionCode |-> "US",
                  price |-> [currencyCode |-> "USD",
                             units |-> PriceUnits(bp.price_usd_micros),
                             nanos |-> PriceNanos(bp.price_usd_micros)]] >>,
             state |-> "ACTIVE"] >>]

NoRequest == [kind |-> "none"]

InAppInsert(packageName, product) ==
    [kind |-> "inappproducts.insert", packageName |-> packageName,
     id |-> InAppBody(product).sku, body |-> InAppBody(product)]

SubscriptionCreate(packageName, sub) ==
    [kind |-> "subscriptions.create", packageName |-> packageName,
     id |-> sub.productId, body |-> SubscriptionBody(sub)]

-----------------------------------------------------------------------------
(* The operator and the environment.                                       *)

NoAnswer == [kind |-> "none"]
EndOfInput == [kind |-> "eof"]
Typed(text) == [kind |-> "text", text |-> text]

\* what the operator may type at a (y/N) prompt
AnswerTexts == { <<"y">>, <<" ", "Y">>, <<"n">>, <<>>, <<"y", "e", "s">> }

Answers == {Typed(t) : t \in AnswerTexts} \cup {EndOfInput}

\* what get_service() may find: everything in place, the client libraries not
\* installed, no key file at the path, or a key file that is not a valid key
AuthConditions == {"ok", "no_libraries", "no_key_file", "bad_key_file"}

NoResult == [kind |-> "none"]
Returned == [kind |-> "returned"]
Raised(conflict, msg) == [kind |-> "raised", conflict |-> conflict, msg |-> msg]

\* str(e) when the remote reports that the entry already exists
ConflictMessages ==
    { <<"4", "0", "9">>,
      <<"A", "l", "r", "e", "a", "d", "y", " ", "E", "x", "i", "s", "t", "s">> }

\* str(e) of the other failures of a create call
OtherMessages ==
    { <<"5", "0", "0">>,
      <<"t", "i", "m", "e", "o", "u", "t">>,
      <<"5", "0", "3", " ", "i", "d", " ", "1", "4", "0", "9", "5">> }

\* .execute() of a create call for identifier id against catalog cat: the remote
\* adds the entry and returns, or reports the existing entry, or fails otherwise
ExecuteResults(cat, id) ==
    (IF cat[id] = 0
     THEN { [exc |-> Returned, cat |-> [cat EXCEPT ![id] = @ + 1]] }
     ELSE { [exc |-> Raised(TRUE, m), cat |-> cat] : m \in ConflictMessages })
    \cup { [exc |-> Raised(FALSE, m), cat |-> cat] : m \in OtherMessages }

-----------------------------------------------------------------------------
(* The script.                                                             *)

\* resp = input(...).strip().lower()
Resp(text) == Lower(Strip(text))

\* mutant of the prompt test: only an explicit "n" ends the run
DeclinesOnNo(resp) == resp = <<"n">>

\* the test `resp != "y"` that ends the run
Declines(resp) == resp # <<"y">>

\* mutant of get_service(): the handler for a missing key file ends the run with status 0
GetServiceResultQuiet(cond) ==
    CASE cond = "ok" -> [client |-> TRUE, exit |-> <<>>]
      [] cond = "no_libraries" -> [client |-> FALSE, exit |-> <<1>>]
      [] cond = "no_key_file" -> [client |-> FALSE, exit |-> <<0>>]
      [] cond = "bad_key_file" -> [client |-> FALSE, exit |-> <<1>>]

\* get_service(): a client, or the exit status the process ends with (sys.exit(1)
\* in the two handlers; an exception no handler names leaves main() uncaught)
GetServiceResult(cond) ==
    CASE cond = "ok" -> [client |-> TRUE, exit |-> <<>>]
      [] cond = "no_libraries" -> [client |-> FALSE, exit |-> <<1>>]
      [] cond = "no_key_file" -> [client |-> FALSE, exit |-> <<1>>]
      [] cond = "bad_key_file" -> [client |-> FALSE, exit |-> <<1>>]

\* mutant of the skip test: the message is searched as it is, not lower-cased,
\* and not for the status code
IsAlreadyExistsExact(error_msg) ==
    Contains(error_msg, <<"a", "l", "r", "e", "a", "d", "y", " ", "e", "x", "i", "s", "t", "s">>)

\* the test that takes the "Already exists (skipping)" branch
IsAlreadyExists(error_msg) ==
    Contains(Lower(error_msg), <<"a", "l", "r", "e", "a", "d", "y", " ", "e", "x", "i", "s", "t", "s">>)
        \/ Contains(error_msg, <<"4", "0", "9">>)

\* mutant of the handler: it takes only the exceptions it will report as existing
CaughtConflictOnly(e) ==
    e.kind = "raised"
        /\ (Contains(Lower(e.msg), <<"a", "l", "r", "e", "a", "d", "y", " ", "e", "x", "i", "s", "t", "s">>)
            \/ Contains(e.msg, <<"4", "0", "9">>))

\* `except Exception` around the create call: does the handler take e
Caught(e) == e.kind = "raised"

\* the line printed for a completed call
Classify(e) ==
    IF e.kind = "returned" THEN "Created"
    ELSE IF IsAlreadyExists(e.msg) THEN "AlreadyExists"
    ELSE "Failed"

\* mutant of the delay: time.sleep inside the try body, after the success message
ReachesSleepOnSuccess(printed) == printed = "Created"

\* mutant of the loop: an item whose call failed is tried again
AdvanceUnlessFailed(k, printed) == IF printed = "Failed" THEN k ELSE k + 1

\* time.sleep(0.5) stands after the try statement, at the level of the loop body:
\* it is reached whatever was printed
ReachesSleep(printed) == TRUE

\* the for loop takes the next item, whatever was printed for this one
Advance(k, printed) == k + 1

NoPrice == [kind |-> "none"]

Init ==
    /\ PACKAGE_NAME \in PackageNames
    /\ pc = "main"
    /\ i = 1
    /\ continueAnswer = NoAnswer
    /\ proceedAnswer = NoAnswer
    /\ authCond = "none"
    /\ service = FALSE
    /\ request = NoRequest
    /\ remote \in [Ids -> {0, 1}]
    /\ issued = <<>>
    /\ completed = 0
    /\ outcome = "none"
    /\ exc = NoResult
    /\ sinceSleep = 0
    /\ firstFailed = 0
    /\ exitCode = <<>>
    /\ run = 1
    /\ synced = FALSE
    /\ clean = TRUE
    /\ micros = <<0>>
    /\ price = NoPrice

\* main(), lines 253-263: warn about the placeholder package name, else go on
\* to the summary and the second prompt
ValidateConfig ==
    /\ pc = "main"
    /\ pc' = IF PACKAGE_NAME = DefaultPackageName THEN "continue_prompt" ELSE "proceed_prompt"
    /\ UNCHANGED <<carried, gate, i, request, remote, issued, completed, outcome, exc,
                   sinceSleep, firstFailed, exitCode, clean>>

\* main(), lines 258-261: "Continue anyway? (y/N)"
AnswerContinue ==
    /\ pc = "continue_prompt"
    /\ \E a \in Answers :
        /\ continueAnswer' = a
        /\ IF a = EndOfInput
           THEN pc' = "exit" /\ exitCode' = <<1>>
           ELSE IF Declines(Resp(a.text))
                THEN pc' = "exit" /\ exitCode' = <<0>>
                ELSE pc' = "proceed_prompt" /\ exitCode' = exitCode
    /\ UNCHANGED <<carried, proceedAnswer, authCond, service, i, request, remote, issued,
                   completed, outcome, exc, sinceSleep, firstFailed, clean>>

\* main(), lines 263-268: print_summary(), then "Proceed with creating all products? (y/N)"
AnswerProceed ==
    /\ pc = "proceed_prompt"
    /\ \E a \in Answers :
        /\ proceedAnswer' = a
        /\ IF a = EndOfInput
           THEN pc' = "exit" /\ exitCode' = <<1>>
           ELSE IF Declines(Resp(a.text))
                THEN pc' = "exit" /\ exitCode' = <<0>>
                ELSE pc' = "get_service" /\ exitCode' = exitCode
    /\ UNCHANGED <<carried, continueAnswer, authCond, service, i, request, remote, issued,
                   completed, outcome, exc, sinceSleep, firstFailed, clean>>

\* main(), line 270: service = get_service()
GetService ==
    /\ pc = "get_service"
    /\ \E cond \in AuthConditions :
        LET r == GetServiceResult(cond)
        IN /\ authCond' = cond
           /\ service' = r.client
           /\ exitCode' = r.exit
           /\ pc' = IF r.client THEN "inapp" ELSE "exit"
    /\ i' = 1
    /\ UNCHANGED <<carried, continueAnswer, proceedAnswer, request, remote, issued,
                   completed, outcome, exc, sinceSleep, firstFailed, clean>>

\* create_in_app_products(), lines 136-160: build the body of the next product
\* and send the insert call
IssueInApp ==
    /\ pc = "inapp"
    /\ i <= Len(IN_APP_PRODUCTS)
    /\ request' = InAppInsert(PACKAGE_NAME, IN_APP_PRODUCTS[i])
    /\ issued' = Append(issued, IN_APP_PRODUCTS[i].sku)
    /\ sinceSleep' = sinceSleep + 1
    /\ pc' = "inapp_call"
    /\ UNCHANGED <<carried, gate, i, remote, completed, outcome, exc, firstFailed,
                   exitCode, clean>>

\* the call returns or raises, and the try statement prints the outcome: the part
\* of the loop body that lines 156-167 and 213-225 share
Complete(sleep) ==
    \E r \in ExecuteResults(remote, request.id) :
        /\ remote' = r.cat
        /\ exc' = r.exc
        /\ request' = NoRequest
        /\ completed' = completed + 1
        /\ firstFailed' = IF r.exc.kind = "raised" /\ firstFailed = 0
                          THEN Len(issued) ELSE firstFailed
        /\ clean' = (clean /\ (r.exc.kind = "raised" => r.exc.conflict))
        /\ IF r.exc.kind = "returned" \/ Caught(r.exc)
           THEN /\ outcome' = Classify(r.exc)
                /\ pc' = sleep
                /\ exitCode' = exitCode
           ELSE /\ outcome' = "none"
                /\ pc' = "exit"
                /\ exitCode' = <<1>>

\* create_in_app_products(), lines 156-167
CompleteInApp ==
    /\ pc = "inapp_call"
    /\ Complete("inapp_sleep")
    /\ UNCHANGED <<carried, gate, i, issued, sinceSleep>>

\* create_in_app_products(), line 169: time.sleep(0.5), then the next product
SleepInApp ==
    /\ pc = "inapp_sleep"
    /\ sinceSleep' = IF ReachesSleep(outcome) THEN 0 ELSE sinceSleep
    /\ i' = Advance(i, outcome)
    /\ pc' = "inapp"
    /\ UNCHANGED <<carried, gate, request, remote, issued, completed, outcome, exc,
                   firstFailed, exitCode, clean>>

\* the product loop is exhausted: main() goes on to create_subscriptions(), line 272
EndInApp ==
    /\ pc = "inapp"
    /\ i > Len(IN_APP_PRODUCTS)
    /\ i' = 1
    /\ pc' = "sub"
    /\ UNCHANGED <<carried, gate, request, remote, issued, completed, outcome, exc,
                   sinceSleep, firstFailed, exitCode, clean>>

\* create_subscriptions(), lines 178-218: build the body and send the create call
IssueSubscription ==
    /\ pc = "sub"
    /\ i <= Len(SUBSCRIPTIONS)
    /\ request' = SubscriptionCreate(PACKAGE_NAME, SUBSCRIPTIONS[i])
    /\ issued' = Append(issued, SUBSCRIPTIONS[i].productId)
    /\ sinceSleep' = sinceSleep + 1
    /\ pc' = "sub_call"
    /\ UNCHANGED <<carried, gate, i, remote, completed, outcome, exc, firstFailed,
                   exitCode, clean>>

\* create_subscriptions(), lines 213-225
CompleteSubscription ==
    /\ pc = "sub_call"
    /\ Complete("sub_sleep")
    /\ UNCHANGED <<carried, gate, i, issued, sinceSleep>>

\* create_subscriptions(), line 227: time.sleep(0.5), then the next subscription
SleepSubscription ==
    /\ pc = "sub_sleep"
    /\ sinceSleep' = IF ReachesSleep(outcome) THEN 0 ELSE sinceSleep
    /\ i' = Advance(i, outcome)
    /\ pc' = "sub"
    /\ UNCHANGED <<carried, gate, request, remote, issued, completed, outcome, exc,
                   firstFailed, exitCode, clean>>

\* the subscription loop is exhausted: main() prints DONE and returns, lines 274-281
Finish ==
    /\ pc = "sub"
    /\ i > Len(SUBSCRIPTIONS)
    /\ pc' = "done"
    /\ exitCode' = <<0>>
    /\ UNCHANGED <<carried, gate, i, request, remote, issued, completed, outcome, exc,
                   sinceSleep, firstFailed, clean>>

Next ==
    \/ ValidateConfig
    \/ AnswerContinue
    \/ AnswerProceed
    \/ GetService
    \/ IssueInApp
    \/ CompleteInApp
    \/ SleepInApp
    \/ EndInApp
    \/ IssueSubscription
    \/ CompleteSubscription
    \/ SleepSubscription
    \/ Finish

Spec == Init /\ [][Next]_vars

\* catalogs for the runs checked for termination: empty, complete, and two
\* complementary ones in which present and absent entries alternate
RemoteSamples ==
    LET odd == {CatalogOrder[n] : n \in {m \in 1..Len(CatalogOrder) : m % 2 = 1}}
    IN { [id \in Ids |-> 0],
         [id \in Ids |-> 1],
         [id \in Ids |-> IF id \in odd THEN 1 ELSE 0],
         [id \in Ids |-> IF id \in odd THEN 0 ELSE 1] }

InitFair == Init /\ remote \in RemoteSamples

\* every step of the script is eventually taken: the operator answers, and every
\* remote call returns or raises
FairSpec == InitFair /\ [][Next]_vars /\ WF_vars(Next)

-----------------------------------------------------------------------------
(* The script invoked again against the catalog the earlier invocation left. *)

MaxRuns == 2

\* python setup_store_products.py once more, lines 284-285: a new process, the
\* same configuration, the remote catalog as the last invocation left it
Rerun ==
    /\ pc \in {"done", "exit"}
    /\ run < MaxRuns
    /\ run' = run + 1
    /\ synced' = (synced \/ pc = "done")
    /\ pc' = "main"
    /\ i' = 1
    /\ continueAnswer' = NoAnswer
    /\ proceedAnswer' = NoAnswer
    /\ authCond' = "none"
    /\ service' = FALSE
    /\ issued' = <<>>
    /\ completed' = 0
    /\ outcome' = "none"
    /\ exc' = NoResult
    /\ sinceSleep' = 0
    /\ firstFailed' = 0
    /\ exitCode' = <<>>
    /\ UNCHANGED <<PACKAGE_NAME, request, remote, clean, micros, price>>

NextTwice == Next \/ Rerun

SpecTwice == Init /\ [][NextTwice]_vars

-----------------------------------------------------------------------------
(* The price conversion of lines 203-204 on its own, over a range of prices. *)

MaxProbeUnits == 12

ProbeRemainders == {0, 1, 999, 1000, 1001, 990000, 999999}

\* prices around every whole-unit boundary up to the bound, the catalog's
\* prices, and prices beyond 2^31 micros
ProbePrices ==
    { BigMulAdd(BigFromNat(u), 1000000, r) :
          u \in (0..MaxProbeUnits) \cup {2147, 2148, 10007, 4294967}, r \in ProbeRemainders }
    \cup { IN_APP_PRODUCTS[n].price_usd_micros : n \in 1..Len(IN_APP_PRODUCTS) }
    \cup { SUBSCRIPTIONS[n].basePlan.price_usd_micros : n \in 1..Len(SUBSCRIPTIONS) }

InitPrice ==
    /\ PACKAGE_NAME = DefaultPackageName
    /\ pc = "price"
    /\ i = 1
    /\ continueAnswer = NoAnswer
    /\ proceedAnswer = NoAnswer
    /\ authCond = "none"
    /\ service = FALSE
    /\ request = NoRequest
    /\ remote = [id \in Ids |-> 0]
    /\ issued = <<>>
    /\ completed = 0
    /\ outcome = "none"
    /\ exc = NoResult
    /\ sinceSleep = 0
    /\ firstFailed = 0
    /\ exitCode = <<>>
    /\ run = 1
    /\ synced = FALSE
    /\ clean = TRUE
    /\ micros \in ProbePrices
    /\ price = NoPrice

\* the "price" entry of the regional config, lines 201-205
ConvertPrice ==
    /\ pc = "price"
    /\ price = NoPrice
    /\ price' = [kind |-> "price",
                 currencyCode |-> "USD",
                 units |-> PriceUnits(micros),
                 nanos |-> PriceNanos(micros)]
    /\ UNCHANGED <<PACKAGE_NAME, pc, i, gate, request, remote, issued, completed, outcome,
                   exc, sinceSleep, firstFailed, exitCode, run, synced, clean, micros>>

NextPrice == ConvertPrice

SpecPrice == InitPrice /\ [][NextPrice]_vars

-----------------------------------------------------------------------------
(* Properties.                                                             *)

\* the decimal string s read back as a digit sequence
DigitValue(c) == CHOOSE n \in 0..9 : DigitChar[n + 1] = c
DigitsOf(str) == [n \in 1..Len(str) |-> DigitValue(str[n])]

IsPrefix(s, t) == Len(s) <= Len(t) /\ SubSeq(t, 1, Len(s)) = s

NoDuplicates == \A id \in Ids : remote[id] <= 1

Phase ==
    CASE pc \in {"main", "continue_prompt", "proceed_prompt", "get_service"} -> "NotStarted"
      [] pc = "done" -> "Done"
      [] pc = "exit" -> "Exited"
      [] OTHER -> "Running"

\* C1: failure isolation.  Once a create call has raised (conflict or not), the run
\* does not end early: it never exits, and when it is done every catalog entry,
\* consumables first and subscriptions after, has had its create call issued.
C1_FailureIsolation ==
    firstFailed > 0 =>
        /\ pc # "exit"
        /\ pc = "done" => issued = CatalogOrder

\* a finished run whose very first consumable call failed with a non-conflict error
C1_Witness ==
    pc = "done" /\ firstFailed = 1 /\ ~clean /\ issued = CatalogOrder

C3_Classification ==
    exc.kind # "none" =>
        /\ outcome \in {"Created", "AlreadyExists", "Failed"}
        /\ outcome = "Created" <=> exc.kind = "returned"
        /\ outcome = "AlreadyExists" <=> (exc.kind = "raised" /\ exc.conflict)
        /\ outcome = "Failed" <=> (exc.kind = "raised" /\ ~exc.conflict)

\* C4: price conversion round trip.  nanos is a multiple of 1000 and
\* units * 1_000_000 + nanos / 1000 is the price in micros again.
C4_RoundTrip ==
    price # NoPrice =>
        /\ price.nanos % 1000 = 0
        /\ BigMulAdd(DigitsOf(price.units), 1000000, price.nanos \div 1000) = micros

\* the conversion of a price beyond 2^31 micros with a non-zero fraction
C4_Witness ==
    price # NoPrice /\ micros = Lit(<<10, 7, 990, 0>>) /\ price.nanos = 990000000

\* C5 as stated: authentication and create calls only after the answer 'y' to the
\* proceed prompt (and to the continue prompt under the placeholder package name);
\* any other answer ends the run with status 0 and nothing sent.
C5_Original ==
    /\ (authCond # "none" \/ issued # <<>>) =>
           /\ proceedAnswer = Typed(<<"y">>)
           /\ PACKAGE_NAME = DefaultPackageName => continueAnswer = Typed(<<"y">>)
    /\ \A a \in {continueAnswer, proceedAnswer} :
           (a.kind = "text" /\ a.text # <<"y">>) =>
               /\ pc = "exit" /\ exitCode = <<0>>
               /\ authCond = "none" /\ issued = <<>>

\* C5 amended: the answer counts as 'y' after surrounding blanks are dropped and
\* letters are lower-cased.
C5_ConfirmationGate ==
    /\ (authCond # "none" \/ issued # <<>>) =>
           /\ proceedAnswer.kind = "text" /\ Resp(proceedAnswer.text) = <<"y">>
           /\ PACKAGE_NAME = DefaultPackageName =>
                  (continueAnswer.kind = "text" /\ Resp(continueAnswer.text) = <<"y">>)
    /\ \A a \in {continueAnswer, proceedAnswer} :
           (a.kind = "text" /\ Resp(a.text) # <<"y">>) =>
               /\ pc = "exit" /\ exitCode = <<0>>
               /\ authCond = "none" /\ issued = <<>>

\* under the placeholder package name, both prompts answered and a call issued
C5_Witness ==
    /\ PACKAGE_NAME = DefaultPackageName
    /\ continueAnswer = Typed(<<"y">>) /\ proceedAnswer = Typed(<<" ", "Y">>)
    /\ issued # <<>>

\* C6: when the client libraries are missing, or the key file is missing or not a
\* valid key, get_service yields no client, the run has ended with a non-zero
\* status, and no create call was issued.
C6_ConfigurationFatal ==
    authCond \in {"no_libraries", "no_key_file", "bad_key_file"} =>
        /\ ~service
        /\ pc = "exit" /\ exitCode # <<>> /\ exitCode # <<0>>
        /\ issued = <<>> /\ request = NoRequest /\ completed = 0

\* get_service() met a key file that is not a valid key
C6_Witness ==
    authCond = "bad_key_file" /\ pc = "exit" /\ exitCode = <<1>>

\* C7: calls are issued one at a time, each completed before the next, each catalog
\* entry once, in catalog order (consumables, then subscriptions).
C7_SequentialExactlyOnce ==
    /\ IsPrefix(issued, CatalogOrder)
    /\ pc = "done" => issued = CatalogOrder
    /\ Len(issued) - completed = (IF request # NoRequest THEN 1 ELSE 0)
    /\ request # NoRequest => request.id = issued[Len(issued)]

\* a finished run in which some call failed and all seven calls were made
C7_Witness ==
    pc = "done" /\ completed = Len(CatalogOrder) /\ firstFailed > 0 /\ outcome = "Failed"

\* C8: the consumable payload carries the decimal string of the micros and "USD";
\* the subscription payload carries one base plan whose US price has
\* units = floor(micros / 1_000_000) in decimal and nanos = (micros mod 1_000_000) * 1000.
C8_PayloadPrice ==
    /\ request.kind = "inappproducts.insert" =>
           /\ \E n \in 1..Len(IN_APP_PRODUCTS) :
                  /\ IN_APP_PRODUCTS[n].sku = request.body.sku
                  /\ DigitsOf(request.body.defaultPrice.priceMicros)
                         = IN_APP_PRODUCTS[n].price_usd_micros
           /\ request.body.defaultPrice.currency = "USD"
           /\ request.body.sku = "single_system" =>
                  request.body.defaultPrice.priceMicros
                      = <<"1", "3", "9", "9", "0", "0", "0", "0">>
    /\ request.kind = "subscriptions.create" =>
           /\ Len(request.body.basePlans) = 1
           /\ Len(request.body.basePlans[1].regionalConfigs) = 1
           /\ LET cfg == request.body.basePlans[1].regionalConfigs[1]
              IN /\ cfg.regionCode = "US"
                 /\ cfg.price.currencyCode = "USD"
                 /\ cfg.price.nanos % 1000 = 0
                 /\ cfg.price.nanos \div 1000 \in 0..999999
                 /\ cfg.price.units = Str(StripZeros(DigitsOf(cfg.price.units)))
                 /\ \E n \in 1..Len(SUBSCRIPTIONS) :
                        /\ SUBSCRIPTIONS[n].productId = request.body.productId
                        /\ BigMulAdd(DigitsOf(cfg.price.units), 1000000,
                                     cfg.price.nanos \div 1000)
                               = SUBSCRIPTIONS[n].basePlan.price_usd_micros
                 /\ request.body.productId = "basic_monthly" =>
                        (cfg.price.units = <<"2", "0">> /\ cfg.price.nanos = 990000000)

\* the create call of the subscription priced beyond 2^31 micros is in flight
C8_Witness ==
    /\ request.kind = "subscriptions.create"
    /\ request.body.productId = "billionaire_yearly"
    /\ request.body.basePlans[1].regionalConfigs[1].price.units
           = <<"1", "0", "0", "0", "7">>

\* the order of the phases of a run; a finished run issues nothing more
PhaseOrder ==
    /\ <<Phase, Phase'>> \in { <<"NotStarted", "NotStarted">>, <<"NotStarted", "Exited">>,
                               <<"NotStarted", "Running">>, <<"Running", "Running">>,
                               <<"Running", "Done">>, <<"Done", "Done">> }
    /\ Phase = "Done" => (issued' = issued /\ completed' = completed)

\* C9: a confirmed, authenticated run goes NotStarted -> Running -> Done, reaches
\* Done whatever the outcomes of its calls, and never leaves Done or issues again.
C9_Termination ==
    /\ [][PhaseOrder]_vars
    /\ (Phase = "Running") ~> (Phase = "Done")

\* a run that reached Done although calls failed
C9_Witness ==
    Phase = "Done" /\ ~clean /\ firstFailed > 0 /\ service

\* C10: between two consecutive create calls there is a delay step: never are two
\* calls issued without a delay since the first, and every loop head (the first
\* subscription included) is reached with the delay after the last call done.
C10_DelayBetweenCalls ==
    /\ sinceSleep <= 1
    /\ pc \in {"inapp", "sub", "done"} => sinceSleep = 0

\* the first subscription call in flight after the last consumable call failed
C10_Witness ==
    /\ pc = "sub_call" /\ i = 1 /\ sinceSleep = 1
    /\ outcome = "Failed" /\ completed = Len(IN_APP_PRODUCTS)

====
